---- MODULE Spec2Model ----
(***************************************************************************)
(* mcp-client-kit: the request/response correlation engine of the          *)
(* transports (BaseTransport and its three variants) and the multi-server  *)
(* aggregator (McpClient), as a state machine.                             *)
(*                                                                         *)
(* One step of the model is one turn of the event loop: a public call or   *)
(* an I/O callback together with every promise continuation (microtask)    *)
(* it triggers.                                                            *)
(***************************************************************************)
EXTENDS Integers, Sequences, FiniteSets, TLC

\* ------------------------------------------------------------------ bounds

\* createRequest is called at most this many times in a run.
MaxRequests == 2
\* McpClient.connect() is invoked at most this many times.
MaxConnects == 1
\* The same, for the client of SpecConn, which sends no requests.
MaxReconnects == 2
\* The longest inbound stream, in characters.
MaxStream == 5
\* A transport leaks at most this many physical connections.
MaxLeaked == 1
\* The clock advances in steps of this many milliseconds.
TickMs == 30000

\* -------------------------------------------------------- program constants

\* BaseTransport.requestTimeout, in milliseconds.
requestTimeout == 30000

\* ------------------------------------------------------------ configuration

\* Object.entries(config.mcpServers): the configured names, in file order.
ServerNames == <<"A", "B">>

\* A name no configuration holds (callers may pass any string).
UnknownServer == "Z"

\* A server's configuration: the fields of IMcpServerConfig that
\* createTransport and the constructors read (type: "" when absent; url /
\* command: present or not).
Cfg(type, url, command) == [type |-> type, url |-> url, command |-> command]

Entry(name, cfg) == [name |-> name, cfg |-> cfg]

\* The configurations loadConfig returns: each is the sequence
\* Object.entries(config.mcpServers); the empty one has no servers.
Configs ==
    { <<Entry(ServerNames[1], Cfg("httpStream", TRUE, FALSE)),
        Entry(ServerNames[2], Cfg("httpStream", TRUE, FALSE))>>,
      <<>> }

\* A factory that, without an explicit type, looks at url before command.
createTransportUrlFirst(config) ==
    LET type == IF config.type # "" THEN config.type
                ELSE IF config.url THEN "sse"
                ELSE IF config.command THEN "stdio"
                ELSE "InvalidServerConfig"
    IN  CASE type = "sse" -> IF config.url THEN "sse" ELSE "ConstructorError"
          [] type = "httpStream" ->
                IF config.url THEN "httpStream" ELSE "ConstructorError"
          [] type = "stdio" ->
                IF config.command THEN "stdio" ELSE "ConstructorError"
          [] type = "InvalidServerConfig" -> "InvalidServerConfig"
          [] OTHER -> "UnsupportedTransportKind"

\* McpClient.createTransport: the transport kind, or the error thrown (by the
\* method itself or by the constructor it calls).
createTransport(config) ==
    LET type == IF config.type # "" THEN config.type
                ELSE IF config.command THEN "stdio"
                ELSE IF config.url THEN "sse"
                ELSE "InvalidServerConfig"
    IN  CASE type = "sse" -> IF config.url THEN "sse" ELSE "ConstructorError"
          [] type = "httpStream" ->
                IF config.url THEN "httpStream" ELSE "ConstructorError"
          [] type = "stdio" ->
                IF config.command THEN "stdio" ELSE "ConstructorError"
          [] type = "InvalidServerConfig" -> "InvalidServerConfig"
          [] OTHER -> "UnsupportedTransportKind"

Kinds == {"sse", "httpStream", "stdio"}

\* ------------------------------------------------------------- the messages

None == [none |-> TRUE]

\* Native items a server may list (IMcpTool / IMcpResource / IMcpPrompt).
Item(n) == [name |-> n]
ItemSeqs == { <<Item("x"), Item("y")>>, <<Item("y")>> }

\* The key under which each list method expects its items.
ListKey(kind) ==
    CASE kind = "listTools" -> "tools"
      [] kind = "listResources" -> "resources"
      [] kind = "listPrompts" -> "prompts"

ListKinds == {"listTools", "listResources", "listPrompts"}
CallKinds == {"callTool", "readResource", "getPrompt"}

\* The JSON-RPC method each public method passes to createRequest.
Method(kind) ==
    CASE kind = "listTools" -> "tools/list"
      [] kind = "listResources" -> "resources/list"
      [] kind = "listPrompts" -> "prompts/list"
      [] kind = "callTool" -> "tools/call"
      [] kind = "readResource" -> "resources/read"
      [] kind = "getPrompt" -> "prompts/get"

\* response.result: an object with one key holding a list, e.g. {tools: [..]},
\* or {content: ..} (key "content", no list of the aggregator's concern).
Result(key, items) == [key |-> key, items |-> items]

\* An inbound frame, as far as JSON.parse, validateResponse and handleResponse
\* look at it.  shape: "garbage" is not JSON, "nonobject" parses to a
\* non-object; jsonrpc: the protocol tag; idType: "undefined" (absent), "null"
\* or "number", and then id is the number; error: "undefined" (absent), "null"
\* or "object"; result: None when absent.
Frame(shape, tag, idType, id, error, result) ==
    [shape |-> shape, jsonrpc |-> tag, idType |-> idType, id |-> id,
     error |-> error, result |-> result]

\* JSON.parse followed by validateResponse: TRUE iff neither throws.
validateResponse(frame) ==
    /\ frame.shape = "object"
    /\ frame.jsonrpc = "2.0"
    /\ frame.idType # "undefined"

\* isErrorResponse: response.error !== undefined.
isErrorResponse(frame) == frame.error # "undefined"

\* JavaScript truthiness of response.id, as tested by `if (!response.id)`.
Truthy(frame) == frame.idType = "number" /\ frame.id # 0

\* ------------------------------------------------------------------- state

VARIABLES
    requestIdCounter,   \* utils/jsonrpc: the module-level id counter
    servers,            \* McpClient.servers: an insertion-ordered Map
    config,             \* McpClient.config: null (None), or the loaded file
                        \* with its mcpServers as Object.entries gives them
    transports,         \* every transport instance created so far
    calls,              \* the sendRequest invocations something still refers
                        \* to (a table entry, a timer, a sendMessage promise,
                        \* an awaiting method) or that settled in the last
                        \* turn, by request id
    ops,                \* the invocations of public McpClient methods that
                        \* are awaiting something, in invocation order
    returned,           \* the invocations that returned or threw in the last
                        \* turn of the event loop
    wire                \* a newline-framed transport's inbound byte stream:
                        \* what the peer writes in all (stream), how much of
                        \* it has arrived (pos), this.buffer, and the texts
                        \* passed to handleResponse so far (handed)

vars ==
    <<requestIdCounter, servers, config, transports, calls, ops, returned, wire>>

\* A transport instance.  server/op: the server name and the connect()
\* invocation of the aggregator that created it (op = 0: user code did).  connected,
\* pendingRequests: BaseTransport's fields.  handle: eventSource /
\* responseStream / process is non-null.  chan: the physical channel
\* ("opening": HTTP request sent, no response yet; "live"; "killed": SIGTERM
\* sent, exit not yet reported; "closed").  conn: the promise connect()
\* returned.  receivedEvent, messageEndpoint: SseTransport's.  startTimer:
\* StdioTransport's 100 ms timer is armed.  leaked: the physical connections
\* an overlapping connect() left open.  disconnectCalled: disconnect() has
\* returned and connect() has not been called since (history).
NewTransport(server, kind, op) ==
    [server |-> server, kind |-> kind, op |-> op, connected |-> FALSE,
     pendingRequests |-> {}, handle |-> FALSE, chan |-> "none",
     conn |-> "none", receivedEvent |-> FALSE, messageEndpoint |-> FALSE,
     startTimer |-> FALSE, leaked |-> 0, disconnectCalled |-> FALSE]

\* A sendRequest invocation.  log: the resolve/reject invocations on its
\* promise, in order (the first one settles it).  response: the value it
\* resolved with.  timer: its timeout is armed.  waited: milliseconds since
\* the send while the timer is armed.  send: the state of the sendMessage
\* promise.
NewCall(tr, method) ==
    [tr |-> tr, method |-> method, registered |-> FALSE,
     log |-> <<>>, response |-> None, timer |-> FALSE, waited |-> 0,
     send |-> "none"]

Outcome(call) == IF call.log = <<>> THEN "pending" ELSE call.log[1]

\* The mutable world one handler works on.
World == [tr |-> transports, cs |-> calls, sv |-> servers]

\* ------------------------------------------------- BaseTransport, as code

\* resolve(response) / reject(error) of one sendRequest promise.
resolve(w, id, frame) ==
    [w EXCEPT !.cs[id].log = Append(@, "resolved"),
              !.cs[id].response = IF w.cs[id].log = <<>> THEN frame ELSE @]

reject(w, id, error) == [w EXCEPT !.cs[id].log = Append(@, error)]

clearTimeout(w, id) == [w EXCEPT !.cs[id].timer = FALSE, !.cs[id].waited = 0]

\* sendMessage's synchronous part: TRUE iff it throws before any I/O
\* (StdioTransport: no process; SseTransport: no message endpoint).
sendMessageThrows(t) ==
    \/ t.kind = "stdio" /\ ~t.handle
    \/ t.kind = "sse" /\ ~t.messageEndpoint

\* A .catch handler that leaves the request's timer running.
sendCatchKeepsTimer(w, id) ==
    LET t == w.cs[id].tr
        w1 == [w EXCEPT !.tr[t].pendingRequests = @ \ {id},
                        !.cs[id].send = "failed"]
    IN  reject(w1, id, "SendError")

\* The .catch handler of sendRequest.
sendCatch(w, id) ==
    LET t == w.cs[id].tr
        w1 == [w EXCEPT !.tr[t].pendingRequests = @ \ {id},
                        !.cs[id].send = "failed"]
    IN  reject(clearTimeout(w1, id), id, "SendError")

\* sendRequest without its setTimeout.
sendRequestNoTimer(w, t, id, method) ==
    LET call == NewCall(t, method)
    IN  IF ~w.tr[t].connected
        THEN [w EXCEPT !.cs = @ @@ (id :> [call EXCEPT !.log = <<"TransportClosed">>])]
        ELSE LET w1 == [w EXCEPT
                          !.cs = @ @@ (id :> [call EXCEPT !.registered = TRUE,
                                                          !.send = "inflight"]),
                          !.tr[t].pendingRequests = @ \cup {id}]
             IN  IF sendMessageThrows(w.tr[t]) THEN sendCatch(w1, id) ELSE w1

\* sendRequest without its `if (!this.connected) throw`.
sendRequestUnchecked(w, t, id, method) ==
    LET call == NewCall(t, method)
        w1 == [w EXCEPT
                 !.cs = @ @@ (id :> [call EXCEPT !.registered = TRUE,
                                                 !.timer = TRUE,
                                                 !.send = "inflight"]),
                 !.tr[t].pendingRequests = @ \cup {id}]
    IN  IF sendMessageThrows(w.tr[t]) THEN sendCatch(w1, id) ELSE w1

\* A sendRequest that registers the request and arms its timer first and
\* looks at this.connected afterwards.
sendRequestChecksLate(w, t, id, method) ==
    LET call == NewCall(t, method)
        w1 == [w EXCEPT
                 !.cs = @ @@ (id :> [call EXCEPT !.registered = TRUE,
                                                 !.timer = TRUE]),
                 !.tr[t].pendingRequests = @ \cup {id}]
    IN  IF ~w.tr[t].connected THEN reject(w1, id, "TransportClosed")
        ELSE LET w2 == [w1 EXCEPT !.cs[id].send = "inflight"]
             IN  IF sendMessageThrows(w.tr[t]) THEN sendCatch(w2, id) ELSE w2

\* BaseTransport.sendRequest(request) with request.id = id and
\* request.method = method.
sendRequest(w, t, id, method) ==
    LET call == NewCall(t, method)
    IN  IF ~w.tr[t].connected
        THEN [w EXCEPT !.cs = @ @@ (id :> [call EXCEPT !.log = <<"TransportClosed">>])]
        ELSE LET w1 == [w EXCEPT
                          !.cs = @ @@ (id :> [call EXCEPT !.registered = TRUE,
                                                          !.timer = TRUE,
                                                          !.send = "inflight"]),
                          !.tr[t].pendingRequests = @ \cup {id}]
             IN  IF sendMessageThrows(w.tr[t]) THEN sendCatch(w1, id) ELSE w1

\* A timeout callback that rejects without deleting the table entry.
onTimeoutKeepsEntry(w, id) ==
    reject([w EXCEPT !.cs[id].timer = FALSE, !.cs[id].waited = 0], id, "Timeout")

\* The timeout callback armed by sendRequest.
onTimeout(w, id) ==
    LET t == w.cs[id].tr
        w1 == [w EXCEPT !.tr[t].pendingRequests = @ \ {id},
                        !.cs[id].timer = FALSE, !.cs[id].waited = 0]
    IN  reject(w1, id, "Timeout")

\* handleResponse without clearTimeout and pendingRequests.delete.
handleResponseKeepsEntry(w, t, frame) ==
    IF ~validateResponse(frame) THEN w
    ELSE IF ~Truthy(frame) THEN w
    ELSE IF frame.id \notin w.tr[t].pendingRequests THEN w
    ELSE IF isErrorResponse(frame)
         THEN IF frame.error = "null" THEN w
              ELSE reject(w, frame.id, "RpcError")
         ELSE resolve(w, frame.id, frame)

\* handleResponse without validateResponse: any parsed object with a truthy
\* id is looked up.
handleResponseUnvalidated(w, t, frame) ==
    IF frame.shape # "object" THEN w
    ELSE IF ~Truthy(frame) THEN w
    ELSE IF frame.id \notin w.tr[t].pendingRequests THEN w
    ELSE LET w1 == [clearTimeout(w, frame.id) EXCEPT
                       !.tr[t].pendingRequests = @ \ {frame.id}]
         IN  IF isErrorResponse(frame)
             THEN IF frame.error = "null" THEN w1
                  ELSE reject(w1, frame.id, "RpcError")
             ELSE resolve(w1, frame.id, frame)

\* BaseTransport.handleResponse(data).
handleResponse(w, t, frame) ==
    IF ~validateResponse(frame) THEN w
    ELSE IF ~Truthy(frame) THEN w
    ELSE IF frame.id \notin w.tr[t].pendingRequests THEN w
    ELSE LET w1 == [clearTimeout(w, frame.id) EXCEPT
                       !.tr[t].pendingRequests = @ \ {frame.id}]
         IN  IF isErrorResponse(frame)
             THEN IF frame.error = "null"
                  THEN w1   \* response.error.code throws; caught and logged
                  ELSE reject(w1, frame.id, "RpcError")
             ELSE resolve(w1, frame.id, frame)

\* BaseTransport.cleanup(): the loop over the table, then clear.
RECURSIVE rejectAll(_, _)
rejectAll(w, ids) ==
    IF ids = {} THEN w
    ELSE LET id == CHOOSE i \in ids : \A j \in ids : i <= j
         IN  rejectAll(reject(clearTimeout(w, id), id, "TransportClosed"),
                       ids \ {id})

\* A cleanup that also takes the transport out of the registry.
cleanupUnregisters(w, t) ==
    [rejectAll(w, w.tr[t].pendingRequests) EXCEPT
        !.tr[t].pendingRequests = {},
        !.tr[t].connected = FALSE,
        !.sv = SelectSeq(@, LAMBDA e : e.tr # t)]

\* A cleanup that rejects the waiters but leaves the table as it is.
cleanupKeepsTable(w, t) ==
    [rejectAll(w, w.tr[t].pendingRequests) EXCEPT !.tr[t].connected = FALSE]

\* A cleanup that rejects and forgets the entries without clearing their
\* timers.
cleanupKeepsTimers(w, t) ==
    [w EXCEPT !.cs = [id \in DOMAIN @ |->
                        IF id \in w.tr[t].pendingRequests
                        THEN [@[id] EXCEPT !.log = Append(@, "TransportClosed")]
                        ELSE @[id]],
              !.tr[t].pendingRequests = {},
              !.tr[t].connected = FALSE]

\* BaseTransport.cleanup().
cleanup(w, t) ==
    [rejectAll(w, w.tr[t].pendingRequests) EXCEPT
        !.tr[t].pendingRequests = {},
        !.tr[t].connected = FALSE]

\* ------------------------------------------- the three transports, as code

\* connect() without its `if (this.connected) return`.
transportConnectAlways(w, t) ==
    LET tr == w.tr[t]
    IN  CASE tr.kind = "sse" ->
               [w EXCEPT !.tr[t].handle = TRUE, !.tr[t].chan = "live",
                         !.tr[t].receivedEvent = FALSE,
                         !.tr[t].conn = "pending"]
          [] tr.kind = "httpStream" ->
               [w EXCEPT !.tr[t].chan = "opening", !.tr[t].conn = "pending"]
          [] tr.kind = "stdio" ->
               [w EXCEPT !.tr[t].handle = TRUE, !.tr[t].chan = "live",
                         !.tr[t].startTimer = TRUE,
                         !.tr[t].conn = "pending"]

\* The physical connection (event subscription, request or response stream,
\* child process) that transport tr opened last is still open.
Open(tr) == tr.chan \in {"opening", "live"}

\* connect() up to the point where it returns its promise. It opens a new
\* physical connection and overwrites the handle without looking at an
\* earlier one: one that is still open stays open, named by nothing (leaked).
transportConnect(w, t) ==
    LET tr == w.tr[t]
        w0 == [w EXCEPT !.tr[t].leaked = IF Open(tr) THEN @ + 1 ELSE @,
                        !.tr[t].disconnectCalled = FALSE]
    IN  IF tr.connected THEN w
        ELSE CASE tr.kind = "sse" ->
                    [w0 EXCEPT !.tr[t].handle = TRUE, !.tr[t].chan = "live",
                               !.tr[t].receivedEvent = FALSE,
                               !.tr[t].conn = "pending"]
               [] tr.kind = "httpStream" ->
                    [w0 EXCEPT !.tr[t].chan = "opening",
                               !.tr[t].conn = "pending"]
               [] tr.kind = "stdio" ->
                    [w0 EXCEPT !.tr[t].handle = TRUE, !.tr[t].chan = "live",
                               !.tr[t].startTimer = TRUE,
                               !.tr[t].conn = "pending"]

\* Map.prototype.set on the insertion-ordered registry.
MapSet(m, name, t) ==
    IF \E i \in DOMAIN m : m[i].name = name
    THEN [i \in DOMAIN m |-> IF m[i].name = name THEN [name |-> name, tr |-> t]
                             ELSE m[i]]
    ELSE Append(m, [name |-> name, tr |-> t])

MapHas(m, name) == \E i \in DOMAIN m : m[i].name = name

\* A lookup that ignores the name and takes the first entry.
MapGetFirst(m, name) == m[1].tr

\* Map.prototype.get, for a name the registry holds.
MapGet(m, name) == m[CHOOSE i \in DOMAIN m : m[i].name = name].tr

\* resolve() of the connect promise, and with it the continuation of
\* McpClient.connect's per-server callback: this.servers.set(name, transport).
resolveConnect(w, t) ==
    IF w.tr[t].conn = "pending"
    THEN [w EXCEPT !.tr[t].conn = "resolved",
                   !.sv = IF w.tr[t].op = 0 THEN @
                          ELSE MapSet(@, w.tr[t].server, t)]
    ELSE w

\* A rejection that also tears down every other transport and empties the
\* registry.
rejectConnectTearsDown(w, t) ==
    IF w.tr[t].conn = "pending"
    THEN [w EXCEPT !.tr = [u \in DOMAIN @ |->
                             IF u = t THEN [@[u] EXCEPT !.conn = "rejected"]
                             ELSE [@[u] EXCEPT !.connected = FALSE]],
                   !.sv = <<>>]
    ELSE w

\* reject() of the connect promise.
rejectConnect(w, t) ==
    IF w.tr[t].conn = "pending" THEN [w EXCEPT !.tr[t].conn = "rejected"] ELSE w

\* disconnect() of each variant: close what the handle names, then cleanup.
transportDisconnect(w, t) ==
    LET tr == w.tr[t]
        w1 == IF ~tr.handle THEN w
              ELSE [w EXCEPT !.tr[t].handle = FALSE,
                             !.tr[t].chan =
                                IF tr.kind = "stdio"
                                THEN (IF @ = "live" THEN "killed" ELSE @)
                                ELSE "closed"]
    IN  [cleanup(w1, t) EXCEPT !.tr[t].disconnectCalled = TRUE]

\* ---- the line framing of HttpStreamTransport and StdioTransport

\* The characters of an inbound stream: two that are not white space, a
\* blank and the newline.
Chars == {"a", "b", " ", "\n"}

WhiteSpace == {" ", "\n"}

NewWire(stream) ==
    [stream |-> stream, pos |-> 0, buffer |-> <<>>, handed |-> <<>>]

\* String.prototype.split('\n'): the pieces between the newlines, at least one.
RECURSIVE split(_)
split(str) ==
    IF \A i \in DOMAIN str : str[i] # "\n" THEN <<str>>
    ELSE LET i == CHOOSE j \in DOMAIN str :
                    str[j] = "\n" /\ \A k \in 1..(j - 1) : str[k] # "\n"
         IN  <<SubSeq(str, 1, i - 1)>> \o split(SubSeq(str, i + 1, Len(str)))

\* String.prototype.trim.
RECURSIVE trim(_)
trim(str) ==
    IF str = <<>> THEN str
    ELSE IF Head(str) \in WhiteSpace THEN trim(Tail(str))
    ELSE IF str[Len(str)] \in WhiteSpace THEN trim(SubSeq(str, 1, Len(str) - 1))
    ELSE str

\* The loop of handleStreamData over the complete lines, from line i on.
RECURSIVE processLines(_, _, _)
processLines(lines, i, handed) ==
    IF i > Len(lines) THEN handed
    ELSE LET trimmed == trim(lines[i])
         IN  processLines(lines, i + 1,
                          IF trimmed # <<>> THEN Append(handed, trimmed)
                          ELSE handed)

\* A handler that treats the last piece as a complete line too.
handleStreamDataNoPop(wr, chunk) ==
    LET lines == split(wr.buffer \o chunk)
    IN  [wr EXCEPT !.pos = @ + Len(chunk),
                   !.buffer = <<>>,
                   !.handed = processLines(lines, 1, @)]

\* handleStreamData(chunk): append to the buffer, split, keep the last piece
\* (lines.pop() || ''), hand over the others.
handleStreamData(wr, chunk) ==
    LET lines == split(wr.buffer \o chunk)
    IN  [wr EXCEPT !.pos = @ + Len(chunk),
                   !.buffer = lines[Len(lines)],
                   !.handed = processLines(SubSeq(lines, 1, Len(lines) - 1), 1, @)]

\* ------------------------------------------------------- McpClient, as code

\* A generator that hands out the counter without advancing it.
generateRequestIdNoIncrement(n) == n

\* generateRequestId: ++requestIdCounter.
generateRequestId(n) == n + 1

\* {...item, serverName}.
Tag(item, serverName) ==
    [f \in DOMAIN item \cup {"serverName"} |->
        IF f = "serverName" THEN serverName ELSE item[f]]

\* The callback of a list method without its try/catch: a rejected sendRequest
\* rejects the callback's promise.
listCallbackNoCatch(kind, name, call) ==
    IF Outcome(call) = "resolved"
    THEN LET result == call.response.result
         IN  [threw |-> FALSE,
              items |-> IF result # None /\ result.key = ListKey(kind)
                        THEN [j \in DOMAIN result.items |->
                                Tag(result.items[j], name)]
                        ELSE <<>>]
    ELSE [threw |-> TRUE, items |-> <<>>]

\* One server's callback of a list method, once its sendRequest has settled:
\* the tagged items, [] when the result lacks the expected key, and [] from
\* the catch block when sendRequest rejected.  threw: the callback's own
\* promise rejects (never, the catch block returns).
listCallback(kind, name, call) ==
    IF Outcome(call) = "resolved"
    THEN LET result == call.response.result
         IN  [threw |-> FALSE,
              items |-> IF result # None /\ result.key = ListKey(kind)
                        THEN [j \in DOMAIN result.items |->
                                Tag(result.items[j], name)]
                        ELSE <<>>]
    ELSE [threw |-> FALSE, items |-> <<>>]

\* A flattening that puts the later arrays first.
RECURSIVE flatReversed(_)
flatReversed(arrays) ==
    IF arrays = <<>> THEN <<>> ELSE flatReversed(Tail(arrays)) \o Head(arrays)

\* Array.prototype.flat over the per-server arrays.
RECURSIVE flat(_)
flat(arrays) ==
    IF arrays = <<>> THEN <<>> ELSE Head(arrays) \o flat(Tail(arrays))

\* An invocation of a public method.  state: "loading" (connect awaiting
\* loadConfig), "pending", "returned" or "failed" (it threw: error).  entries:
\* the registry entries (for connect: the per-server attempts) it works on;
\* reqs: the ids of the requests it issued, one per entry; parts: how each of
\* them ended, once it returned.
NewOp(kind, arg) ==
    [kind |-> kind, arg |-> arg, state |-> "pending", entries |-> <<>>,
     reqs |-> <<>>, parts |-> <<>>, result |-> None, error |-> ""]

Part(call) == [outcome |-> Outcome(call), response |-> call.response]

\* A combinator that settles with the first settled request (Promise.race).
promiseRace(reqs, w) ==
    \E i \in DOMAIN reqs : Outcome(w.cs[reqs[i]]) # "pending"

\* Promise.all over the callbacks of a list method has settled: each callback
\* returns once the sendRequest it awaits is settled, and none of them rejects.
promiseAll(reqs, w) ==
    \A i \in DOMAIN reqs : Outcome(w.cs[reqs[i]]) # "pending"

\* The continuations of an awaiting invocation: what it does once the
\* promises it awaits (Promise.all / await) have settled in world w.
continue(op, w) ==
    IF op.state # "pending" THEN op
    ELSE IF op.kind = "connect"
    THEN IF \E i \in DOMAIN op.entries : op.entries[i].tr = 0
         THEN [op EXCEPT !.state = "failed",
                         !.error = op.entries[CHOOSE i \in DOMAIN op.entries :
                                       /\ op.entries[i].tr = 0
                                       /\ \A j \in 1..(i - 1) :
                                            op.entries[j].tr # 0].error]
         ELSE IF \E i \in DOMAIN op.entries :
                    w.tr[op.entries[i].tr].conn = "rejected"
         THEN [op EXCEPT !.state = "failed", !.error = "ConnectionError"]
         ELSE IF \A i \in DOMAIN op.entries :
                    w.tr[op.entries[i].tr].conn = "resolved"
         THEN [op EXCEPT !.state = "returned"]
         ELSE op
    ELSE IF op.kind \in ListKinds
    THEN IF promiseAll(op.reqs, w)
         THEN LET cb == [i \in DOMAIN op.reqs |->
                           listCallback(op.kind, op.entries[i].name,
                                        w.cs[op.reqs[i]])]
                  done == [op EXCEPT !.parts = [i \in DOMAIN op.reqs |->
                                                  Part(w.cs[op.reqs[i]])]]
              IN  IF \E i \in DOMAIN cb : cb[i].threw
                  THEN [done EXCEPT !.state = "failed",
                                    !.error = done.parts[CHOOSE i \in DOMAIN cb :
                                                            cb[i].threw].outcome]
                  ELSE [done EXCEPT !.state = "returned",
                                    !.result = flat([i \in DOMAIN cb |-> cb[i].items])]
         ELSE op
    ELSE IF op.kind \in CallKinds
    THEN LET c == w.cs[op.reqs[1]]
             done == [op EXCEPT !.parts = <<Part(c)>>]
         IN  IF Outcome(c) = "pending" THEN op
             ELSE IF Outcome(c) = "resolved"
             THEN IF c.response.error # "undefined"
                  THEN [done EXCEPT !.state = "failed", !.error = "RpcError"]
                  ELSE [done EXCEPT !.state = "returned",
                                    !.result = c.response.result]
             ELSE [done EXCEPT !.state = "failed", !.error = Outcome(c)]
    ELSE op

Awaiting(op) == op.state \in {"loading", "pending"}

Range(seq) == {seq[i] : i \in DOMAIN seq}

\* Something still refers to the promise of request id: a caller awaiting
\* it, its table entry, its timer or the .catch of its sendMessage.
Referenced(w, os, id) ==
    \/ Outcome(w.cs[id]) = "pending"
    \/ w.cs[id].timer
    \/ w.cs[id].send = "inflight"
    \/ id \in w.tr[w.cs[id].tr].pendingRequests
    \/ \E i \in DOMAIN os : id \in Range(os[i].reqs)

\* One turn of the event loop ends: the handler left world w, invocations os
\* and id counter n; every continuation that became runnable runs.
Commit(w, os, n) ==
    LET os1 == [i \in DOMAIN os |-> continue(os[i], w)]
        waiting == SelectSeq(os1, Awaiting)
        touched(id) == id \notin DOMAIN calls \/ w.cs[id].log # calls[id].log
        keep == {id \in DOMAIN w.cs : Referenced(w, waiting, id) \/ touched(id)}
    IN  /\ transports' = w.tr
        /\ servers' = w.sv
        /\ requestIdCounter' = n
        /\ ops' = waiting
        /\ returned' = SelectSeq(os1, LAMBDA op : ~Awaiting(op))
        /\ calls' = [id \in keep |-> w.cs[id]]
        /\ UNCHANGED wire

Handled(w) == Commit(w, ops, requestIdCounter) /\ UNCHANGED config

\* McpClient.connect's map over Object.entries(config.mcpServers), from entry
\* i on: createTransport, then transport.connect() up to its first await.
\* Returns the world and the per-server attempts, each with the callback's
\* serverName and config (tr = 0: createTransport threw error).
RECURSIVE connectAll(_, _, _, _, _)
connectAll(w, cfg, i, o, attempts) ==
    IF i > Len(cfg) THEN [w |-> w, entries |-> attempts]
    ELSE LET kind == createTransport(cfg[i].cfg)
         IN  IF kind \notin Kinds
             THEN connectAll(w, cfg, i + 1, o,
                             Append(attempts, [name |-> cfg[i].name, tr |-> 0,
                                               error |-> kind,
                                               config |-> cfg[i].cfg]))
             ELSE LET t == Len(w.tr) + 1
                      w1 == [w EXCEPT !.tr = Append(@, NewTransport(cfg[i].name, kind, o))]
                  IN  connectAll(transportConnect(w1, t), cfg, i + 1, o,
                                 Append(attempts, [name |-> cfg[i].name, tr |-> t,
                                                   error |-> "",
                                                   config |-> cfg[i].cfg]))

\* A map that stops after the first registered transport.
disconnectFirstOnly(w, entries, i, failing, called) ==
    IF i > Len(entries) THEN [w |-> w, called |-> called]
    ELSE [w |-> transportDisconnect(w, entries[i].tr),
          called |-> Append(called, entries[i].tr)]

\* McpClient.disconnect's map over this.servers.entries(), from entry i on:
\* await transport.disconnect() inside try / catch. failing: the transports
\* whose close call (eventSource.close, response.destroy, process.kill)
\* throws, which leaves their disconnect() before the handle is dropped and
\* cleanup runs. Returns the world and the transports disconnect() was called
\* on, in call order.
RECURSIVE disconnectAll(_, _, _, _, _)
disconnectAll(w, entries, i, failing, called) ==
    IF i > Len(entries) THEN [w |-> w, called |-> called]
    ELSE LET t == entries[i].tr
             w1 == IF t \in failing /\ w.tr[t].handle THEN w
                   ELSE transportDisconnect(w, t)
         IN  disconnectAll(w1, entries, i + 1, failing, Append(called, t))

\* A fan-out that awaits the first server's request before building the next:
\* when it hands over to the event loop only the first request exists.
fanOutFirstOnly(w, entries, i, n, method, reqs) ==
    IF i > Len(entries) THEN [w |-> w, n |-> n, reqs |-> reqs]
    ELSE LET id == generateRequestId(n)
         IN  [w |-> sendRequest(w, entries[i].tr, id, method), n |-> id,
              reqs |-> Append(reqs, id)]

\* The map of a list method over this.servers.entries(), from entry i on:
\* createRequest, then transport.sendRequest up to its first await.
RECURSIVE fanOut(_, _, _, _, _, _)
fanOut(w, entries, i, n, method, reqs) ==
    IF i > Len(entries) THEN [w |-> w, n |-> n, reqs |-> reqs]
    ELSE LET id == generateRequestId(n)
         IN  fanOut(sendRequest(w, entries[i].tr, id, method), entries,
                    i + 1, id, method, Append(reqs, id))

\* ------------------------------------------------------------------ actions

Init ==
    /\ requestIdCounter = 0
    /\ servers = <<>>
    /\ config = None
    /\ transports = <<>>
    /\ calls = <<>>
    /\ ops = <<>>
    /\ returned = <<>>
    /\ wire = NewWire(<<>>)

\* McpClient.connect() is called, on a client on which fewer than max calls of
\* connect() have created transports: it awaits loadConfig().
connectUpTo(max) ==
    /\ \A t \in DOMAIN transports : transports[t].op < max
    /\ \A i \in DOMAIN ops : ops[i].state # "loading"
    /\ Commit(World, Append(ops, [NewOp("connect", "") EXCEPT !.state = "loading"]),
              requestIdCounter)
    /\ UNCHANGED config

connect == connectUpTo(MaxConnects)

\* loadConfig() rejects: the file is unreadable or not JSON.
loadConfigFails(o) ==
    /\ ops[o].state = "loading"
    /\ Commit(World,
              [ops EXCEPT ![o].state = "failed", ![o].error = "ConfigError"],
              requestIdCounter)
    /\ UNCHANGED config

\* A connect() that maps over the configured servers without looking whether
\* there are any.
loadConfigDoneUnchecked(o, cfg) ==
    /\ ops[o].state = "loading"
    /\ config' = [mcpServers |-> cfg]
    /\ LET gen == Cardinality({transports[t].op : t \in DOMAIN transports}) + 1
           r == connectAll(World, cfg, 1, gen, <<>>)
       IN  Commit(r.w,
                  [ops EXCEPT ![o].state = "pending", ![o].entries = r.entries],
                  requestIdCounter)

\* loadConfig() resolves with cfg: the rest of McpClient.connect() up to
\* Promise.all.
loadConfigDone(o, cfg) ==
    /\ ops[o].state = "loading"
    /\ config' = [mcpServers |-> cfg]
    /\ IF cfg = <<>>
       THEN Commit(World,
                   [ops EXCEPT ![o].state = "failed",
                               ![o].error = "NoServersConfigured"],
                   requestIdCounter)
       ELSE LET gen == Cardinality({transports[t].op : t \in DOMAIN transports}) + 1
                r == connectAll(World, cfg, 1, gen, <<>>)
            IN  Commit(r.w,
                       [ops EXCEPT ![o].state = "pending",
                                   ![o].entries = r.entries],
                       requestIdCounter)

\* McpClient.disconnect(), the close call of the transports in failing
\* throwing. The invocation records the registry it started with (entries)
\* and the transports it called disconnect() on (parts).
disconnectWith(failing) ==
    /\ LET r == disconnectAll(World, servers, 1, failing, <<>>)
           w == [r.w EXCEPT !.sv = <<>>]
       IN  Commit(w,
                  Append(ops, [NewOp("disconnect", "") EXCEPT
                                  !.state = "returned", !.entries = servers,
                                  !.parts = r.called]),
                  requestIdCounter)
    /\ UNCHANGED config

\* McpClient.disconnect() with no close call throwing.
disconnect == disconnectWith({})

\* McpClient.listTools() / listResources() / listPrompts().
list(kind) ==
    /\ requestIdCounter + Len(servers) <= MaxRequests
    /\ LET r == fanOut(World, servers, 1, requestIdCounter, Method(kind), <<>>)
       IN  Commit(r.w,
                  Append(ops, [NewOp(kind, "") EXCEPT !.entries = servers,
                                                      !.reqs = r.reqs]),
                  r.n)
    /\ UNCHANGED config

\* A callTool / readResource / getPrompt that builds its request before it
\* looks the server up.
invokeBuildsFirst(kind, serverName) ==
    /\ requestIdCounter < MaxRequests
    /\ LET id == generateRequestId(requestIdCounter)
       IN  IF ~MapHas(servers, serverName)
           THEN Commit(World,
                       Append(ops, [NewOp(kind, serverName) EXCEPT
                                       !.state = "failed",
                                       !.error = "ServerNotFound"]),
                       id)
           ELSE LET t == MapGet(servers, serverName)
                IN  Commit(sendRequest(World, t, id, Method(kind)),
                           Append(ops, [NewOp(kind, serverName) EXCEPT
                                          !.entries = <<[name |-> serverName, tr |-> t]>>,
                                          !.reqs = <<id>>]),
                           id)
    /\ UNCHANGED config

\* McpClient.callTool / readResource / getPrompt (serverName, ...).
invoke(kind, serverName) ==
    /\ IF ~MapHas(servers, serverName)
       THEN Commit(World,
                   Append(ops, [NewOp(kind, serverName) EXCEPT
                                   !.state = "failed",
                                   !.error = "ServerNotFound"]),
                   requestIdCounter)
       ELSE /\ requestIdCounter < MaxRequests
            /\ LET t == MapGet(servers, serverName)
                   id == generateRequestId(requestIdCounter)
               IN  Commit(sendRequest(World, t, id, Method(kind)),
                          Append(ops, [NewOp(kind, serverName) EXCEPT
                                         !.entries = <<[name |-> serverName, tr |-> t]>>,
                                         !.reqs = <<id>>]),
                          id)
    /\ UNCHANGED config

\* ---- SseTransport's EventSource handlers

SseLive(t) == transports[t].kind = "sse" /\ transports[t].chan = "live"

\* The 'endpoint' event.
SseEndpoint(t) ==
    /\ SseLive(t)
    /\ Handled(resolveConnect([World EXCEPT !.tr[t].receivedEvent = TRUE,
                                            !.tr[t].messageEndpoint = TRUE,
                                            !.tr[t].connected = TRUE], t))

\* onmessage.
SseMessage(t, frame) ==
    /\ SseLive(t)
    /\ Handled(handleResponse([World EXCEPT !.tr[t].receivedEvent = TRUE], t, frame))

\* onerror; fatal: the EventSource gives up instead of reconnecting.
SseError(t, fatal) ==
    /\ SseLive(t)
    /\ LET tr == transports[t]
           w == IF fatal THEN [World EXCEPT !.tr[t].chan = "closed"] ELSE World
       IN  IF ~tr.connected /\ ~tr.receivedEvent
           THEN Handled(rejectConnect([w EXCEPT !.tr[t].chan = "closed",
                                                !.tr[t].handle = FALSE], t))
           ELSE Handled(cleanup(w, t))

\* ---- HttpStreamTransport's request and response handlers

\* The response callback of connect's request.
HttpResponse(t, ok) ==
    /\ transports[t].kind = "httpStream" /\ transports[t].chan = "opening"
    /\ IF ok
       THEN Handled(resolveConnect([World EXCEPT !.tr[t].handle = TRUE,
                                                 !.tr[t].chan = "live",
                                                 !.tr[t].connected = TRUE], t))
       ELSE Handled(rejectConnect([World EXCEPT !.tr[t].chan = "closed"], t))

\* req.on('error') before any response.
HttpReqError(t) ==
    /\ transports[t].kind = "httpStream" /\ transports[t].chan = "opening"
    /\ Handled(rejectConnect([World EXCEPT !.tr[t].chan = "closed"], t))

\* res.on('data') delivering one complete line.
HttpData(t, frame) ==
    /\ transports[t].kind = "httpStream" /\ transports[t].chan = "live"
    /\ Handled(handleResponse(World, t, frame))

\* res.on('end') / res.on('error').
HttpEnd(t) ==
    /\ transports[t].kind = "httpStream" /\ transports[t].chan = "live"
    /\ Handled(cleanup([World EXCEPT !.tr[t].chan = "closed"], t))

\* ---- StdioTransport's process handlers

StdioRunning(t) ==
    transports[t].kind = "stdio" /\ transports[t].chan \in {"live", "killed"}

\* process.on('error'); exits: an 'exit' event will still follow.
StdioError(t, exits) ==
    /\ StdioRunning(t)
    /\ LET w == IF exits THEN World ELSE [World EXCEPT !.tr[t].chan = "closed"]
       IN  IF ~transports[t].connected
           THEN Handled(rejectConnect(w, t))
           ELSE Handled(cleanup(w, t))

\* process.on('exit').
StdioExit(t) ==
    /\ StdioRunning(t)
    /\ Handled(cleanup([World EXCEPT !.tr[t].chan = "closed"], t))

\* The 100 ms timer of connect().
StdioStartTimer(t) ==
    /\ transports[t].kind = "stdio" /\ transports[t].startTimer
    /\ LET w == [World EXCEPT !.tr[t].startTimer = FALSE]
       IN  IF transports[t].handle
           THEN Handled(resolveConnect([w EXCEPT !.tr[t].connected = TRUE], t))
           ELSE Handled(rejectConnect(w, t))

\* stdout.on('data') delivering one complete line.
StdioData(t, frame) ==
    /\ StdioRunning(t)
    /\ Handled(handleResponse(World, t, frame))

\* ---- BaseTransport's timers and the outcome of sendMessage

TimerDue(c) == c.timer /\ c.waited >= requestTimeout

\* The timeout callback of request id runs.
requestTimeoutFires(id) ==
    /\ TimerDue(calls[id])
    /\ Handled(onTimeout(World, id))

\* sendMessage's promise rejects (non-2xx POST, write error).
sendMessageFails(id) ==
    /\ calls[id].send = "inflight"
    /\ Handled(sendCatch(World, id))

\* sendMessage's promise resolves.
sendMessageDone(id) ==
    /\ calls[id].send = "inflight"
    /\ Handled([World EXCEPT !.cs[id].send = "sent"])

\* Time passes: TickMs milliseconds, unless a timer is due before.
Tick ==
    /\ \E id \in DOMAIN calls : calls[id].timer
    /\ \A id \in DOMAIN calls : ~TimerDue(calls[id])
    /\ \A t \in DOMAIN transports : ~transports[t].startTimer
    /\ Handled([World EXCEPT
                  !.cs = [id \in DOMAIN calls |->
                            IF calls[id].timer
                            THEN [calls[id] EXCEPT !.waited = @ + TickMs]
                            ELSE calls[id]]])

\* ------------------------------------------------------------ what arrives

MalformedFrames ==
    { Frame("garbage", "", "undefined", 0, "undefined", None),
      Frame("nonobject", "", "undefined", 0, "undefined", None),
      Frame("object", "1.0", "number", 1, "undefined", None),
      Frame("object", "2.0", "undefined", 0, "undefined", None),
      Frame("object", "2.0", "null", 0, "undefined", None),
      Frame("object", "2.0", "number", 0, "undefined", None) }

\* The results a server may put in its answer to a request of this method.
ResultsFor(method) ==
    IF \E kind \in ListKinds : method = Method(kind)
    THEN { Result(ListKey(kind), i) : kind \in {k \in ListKinds : method = Method(k)},
                                     i \in ItemSeqs }
            \cup { Result("content", <<>>) }
    ELSE { Result("content", i) : i \in ItemSeqs }

\* Everything a server may send: malformed frames; for every request still
\* referred to a success, an error object, or "error": null; and a success
\* carrying an id nothing waits for.
Frames ==
    MalformedFrames
        \cup UNION { { Frame("object", "2.0", "number", id, "undefined", r) :
                         r \in ResultsFor(calls[id].method) } : id \in DOMAIN calls }
        \cup { Frame("object", "2.0", "number", id, e, None) :
                 id \in DOMAIN calls, e \in {"object", "null"} }
        \cup { Frame("object", "2.0", "number", requestIdCounter + 1,
                     "undefined", Result("content", <<>>)) }

ServerArgs == Range(ServerNames) \cup {UnknownServer}

\* ---- a transport used directly (index.ts exports the three classes)

\* User code calls transport.connect().
userConnect(t) ==
    /\ transports[t].op = 0
    /\ transports[t].conn = "none" \/ transports[t].connected
    /\ Handled(transportConnect(World, t))

\* User code calls transport.connect() again on a transport that is not
\* connected: while an earlier connect() is still connecting, or after the
\* transport failed or was disconnected.
userReconnect(t) ==
    /\ transports[t].op = 0
    /\ transports[t].conn # "none"
    /\ ~transports[t].connected
    /\ transports[t].leaked < MaxLeaked
    /\ Handled(transportConnect(World, t))

\* User code calls transport.disconnect().
userDisconnect(t) ==
    /\ transports[t].op = 0
    /\ Handled(transportDisconnect(World, t))

\* User code calls transport.sendRequest(createRequest(method, params)).
userSendRequest(t, method) ==
    /\ transports[t].op = 0
    /\ requestIdCounter < MaxRequests
    /\ LET id == generateRequestId(requestIdCounter)
       IN  Commit(sendRequest(World, t, id, method), ops, id)
    /\ UNCHANGED config

\* ------------------------------------------------------- specifications

\* What the servers, the timers and the clock do.
Environment ==
    \/ \E t \in DOMAIN transports : SseEndpoint(t)
    \/ \E t \in DOMAIN transports, f \in Frames : SseMessage(t, f)
    \/ \E t \in DOMAIN transports, fatal \in BOOLEAN : SseError(t, fatal)
    \/ \E t \in DOMAIN transports, ok \in BOOLEAN : HttpResponse(t, ok)
    \/ \E t \in DOMAIN transports : HttpReqError(t)
    \/ \E t \in DOMAIN transports, f \in Frames : HttpData(t, f)
    \/ \E t \in DOMAIN transports : HttpEnd(t)
    \/ \E t \in DOMAIN transports, exits \in BOOLEAN : StdioError(t, exits)
    \/ \E t \in DOMAIN transports : StdioExit(t)
    \/ \E t \in DOMAIN transports : StdioStartTimer(t)
    \/ \E t \in DOMAIN transports, f \in Frames : StdioData(t, f)
    \/ \E id \in DOMAIN calls : requestTimeoutFires(id)
    \/ \E id \in DOMAIN calls : sendMessageFails(id)
    \/ \E id \in DOMAIN calls : sendMessageDone(id)
    \/ Tick

\* One transport of any of the three kinds, constructed and used by user code.
InitTransport ==
    /\ requestIdCounter = 0
    /\ servers = <<>>
    /\ config = None
    /\ \E kind \in Kinds : transports = <<NewTransport("", kind, 0)>>
    /\ calls = <<>>
    /\ ops = <<>>
    /\ returned = <<>>
    /\ wire = NewWire(<<>>)

NextTransport ==
    \/ \E t \in DOMAIN transports : userConnect(t)
    \/ \E t \in DOMAIN transports : userDisconnect(t)
    \/ \E t \in DOMAIN transports : userSendRequest(t, "tools/call")
    \/ Environment

SpecTransport == InitTransport /\ [][NextTransport]_vars

\* One transport on which user code calls connect() and disconnect() in any
\* order and any number of times.
NextReuse ==
    \/ NextTransport
    \/ \E t \in DOMAIN transports : userReconnect(t)

SpecReuse == InitTransport /\ [][NextReuse]_vars

\* What the servers of the aggregator's streaming-HTTP transports, the timers
\* and the clock do.
HttpEnvironment ==
    \/ \E t \in DOMAIN transports, ok \in BOOLEAN : HttpResponse(t, ok)
    \/ \E t \in DOMAIN transports : HttpReqError(t)
    \/ \E t \in DOMAIN transports, f \in Frames : HttpData(t, f)
    \/ \E t \in DOMAIN transports : HttpEnd(t)
    \/ \E id \in DOMAIN calls : requestTimeoutFires(id)
    \/ \E id \in DOMAIN calls : sendMessageFails(id)
    \/ \E id \in DOMAIN calls : sendMessageDone(id)
    \/ Tick

\* The aggregator's connection lifecycle.
Lifecycle ==
    \/ connect
    \/ \E o \in DOMAIN ops : loadConfigFails(o)
    \/ \E o \in DOMAIN ops, cfg \in Configs : loadConfigDone(o, cfg)
    \/ disconnect

\* A McpClient whose callers list capabilities.
NextList ==
    \/ Lifecycle
    \/ \E kind \in ListKinds : list(kind)
    \/ HttpEnvironment

SpecList == Init /\ [][NextList]_vars

\* A McpClient whose callers call tools, read resources and get prompts.
NextCall ==
    \/ Lifecycle
    \/ \E kind \in CallKinds, s \in ServerArgs : invoke(kind, s)
    \/ HttpEnvironment

SpecCall == Init /\ [][NextCall]_vars

\* A McpClient whose callers both list and call tools.
NextClient ==
    \/ Lifecycle
    \/ list("listTools")
    \/ \E s \in ServerArgs : invoke("callTool", s)
    \/ HttpEnvironment

SpecClient == Init /\ [][NextClient]_vars

\* With the timers firing when they are due and time passing.
Fairness ==
    /\ WF_vars(Tick)
    /\ \A id \in 1..MaxRequests :
         WF_vars(id \in DOMAIN calls /\ requestTimeoutFires(id))

SpecTransportFair == SpecTransport /\ Fairness

SpecListFair == SpecList /\ Fairness

\* Configurations that mix the three kinds and a server entry from which no
\* transport can be created.
ConnConfigs ==
    { <<Entry(ServerNames[1], Cfg("", TRUE, FALSE)),
        Entry(ServerNames[2], Cfg("", FALSE, TRUE))>>,
      <<Entry(ServerNames[1], Cfg("httpStream", TRUE, FALSE)),
        Entry(ServerNames[2], Cfg("", FALSE, FALSE))>>,
      <<Entry(ServerNames[1], Cfg("httpStream", TRUE, FALSE)),
        Entry(ServerNames[2], Cfg("sse", TRUE, FALSE))>>,
      <<>> }

\* What the servers do to the connections of a client that sends no request.
ConnEnvironment ==
    \/ \E t \in DOMAIN transports : SseEndpoint(t)
    \/ \E t \in DOMAIN transports, f \in MalformedFrames : SseMessage(t, f)
    \/ \E t \in DOMAIN transports, fatal \in BOOLEAN : SseError(t, fatal)
    \/ \E t \in DOMAIN transports, ok \in BOOLEAN : HttpResponse(t, ok)
    \/ \E t \in DOMAIN transports : HttpReqError(t)
    \/ \E t \in DOMAIN transports : HttpEnd(t)
    \/ \E t \in DOMAIN transports, exits \in BOOLEAN : StdioError(t, exits)
    \/ \E t \in DOMAIN transports : StdioExit(t)
    \/ \E t \in DOMAIN transports : StdioStartTimer(t)

\* A McpClient that connects to and disconnects from servers of every kind.
NextConn ==
    \/ connectUpTo(MaxReconnects)
    \/ \E o \in DOMAIN ops : loadConfigFails(o)
    \/ \E o \in DOMAIN ops, cfg \in ConnConfigs : loadConfigDone(o, cfg)
    \/ \E failing \in SUBSET {servers[j].tr : j \in DOMAIN servers} :
         disconnectWith(failing)
    \/ ConnEnvironment

SpecConn == Init /\ [][NextConn]_vars

\* The inbound streams: every text of at most MaxStream characters.
Streams == UNION {[1..n -> Chars] : n \in 0..MaxStream}

\* res.on('data') / stdout.on('data'): the next n characters of the stream
\* arrive as one chunk.
streamData(n) ==
    /\ wire.pos + n <= Len(wire.stream)
    /\ wire' = handleStreamData(wire, SubSeq(wire.stream, wire.pos + 1, wire.pos + n))
    /\ UNCHANGED <<requestIdCounter, servers, config, transports, calls, ops,
                   returned>>

\* A newline-framed transport whose peer writes any stream.
InitFraming ==
    /\ requestIdCounter = 0
    /\ servers = <<>>
    /\ config = None
    /\ transports = <<>>
    /\ calls = <<>>
    /\ ops = <<>>
    /\ returned = <<>>
    /\ \E stream \in Streams : wire = NewWire(stream)

NextFraming == \E n \in 1..MaxStream : streamData(n)

SpecFraming == InitFraming /\ [][NextFraming]_vars

\* The values a configuration file can give to "type": absent, the three
\* kinds, and a string that is none of them.
Types == {"", "sse", "httpStream", "stdio", "websocket"}

\* Every server configuration over Types, with and without url and command.
AllCfgs == {Cfg(type, url, command) :
              type \in Types, url \in BOOLEAN, command \in BOOLEAN}

\* The configuration files with one or two servers, each of any shape.
FactoryConfigs ==
    {<<Entry(ServerNames[1], c)>> : c \in AllCfgs}
    \cup {<<Entry(ServerNames[1], c), Entry(ServerNames[2], d)>> :
            c \in AllCfgs, d \in AllCfgs}

\* A McpClient that creates its transports from any configuration.
NextFactory ==
    \/ connect
    \/ \E o \in DOMAIN ops, cfg \in FactoryConfigs : loadConfigDone(o, cfg)

SpecFactory == Init /\ [][NextFactory]_vars

\* ------------------------------------------------------------ properties

\* A line arrives on transport t, whatever its kind.
Data(t, f) == SseMessage(t, f) \/ HttpData(t, f) \/ StdioData(t, f)

\* The well-formed success responses to request id.
SuccessFor(id) ==
    { Frame("object", "2.0", "number", id, "undefined", r) :
        r \in ResultsFor(calls[id].method) }

\* C1: the wait of a registered request is settled at most once.  A
\* well-formed success response with the request's id that arrives while the
\* request is pending resolves it with that response and removes its entry;
\* once settled, the outcome and the value never change; and after a
\* resolution no response, timer or cleanup resolves or rejects it again (the
\* only later invocation is the rejection by a failing send, which has no
\* effect on a settled promise).
C1_SettledOnce ==
    [][\A id \in DOMAIN calls :
         /\ \A t \in DOMAIN transports, f \in SuccessFor(id) :
              (/\ id \in transports[t].pendingRequests
               /\ Outcome(calls[id]) = "pending"
               /\ Data(t, f))
              => /\ id \in DOMAIN calls'
                 /\ calls'[id].log = <<"resolved">>
                 /\ calls'[id].response = f
                 /\ id \notin transports'[t].pendingRequests
         /\ id \in DOMAIN calls' =>
              /\ Outcome(calls[id]) # "pending" =>
                   /\ Outcome(calls'[id]) = Outcome(calls[id])
                   /\ calls'[id].response = calls[id].response
              /\ Outcome(calls[id]) = "resolved" =>
                   calls'[id].log \in {calls[id].log,
                                       Append(calls[id].log, "SendError")}]_vars

\* A request resolved by its response, whose transport was cleaned up later.
C1_Witness ==
    \E id \in DOMAIN calls :
        /\ calls[id].log = <<"resolved">>
        /\ calls[id].response.id = id
        /\ ~transports[calls[id].tr].connected

\* C2: when disconnect() on a transport returns, every request that was in
\* its table is rejected with TransportClosed, the table is empty, the
\* transport is not connected, and no sendRequest on that transport is still
\* unsettled.
C2_DisconnectUnblocksAll ==
    [][\A t \in DOMAIN transports :
         userDisconnect(t) =>
            /\ \A id \in transports[t].pendingRequests :
                 id \in DOMAIN calls' /\ calls'[id].log = <<"TransportClosed">>
            /\ transports'[t].pendingRequests = {}
            /\ ~transports'[t].connected
            /\ \A id \in DOMAIN calls' :
                 calls'[id].tr = t => Outcome(calls'[id]) # "pending"]_vars

\* The timeout of request id is armed.
Armed(id) == id \in DOMAIN calls /\ calls[id].timer

\* C3: a request whose response never arrives fails with Timeout when
\* requestTimeout has elapsed, and its id leaves the table at that moment:
\* the timer fires no earlier than requestTimeout after the send, it rejects
\* the pending request with Timeout and deletes its entry, and an armed timer
\* always ends (by firing, unless a response, a cleanup or a send failure
\* cancels it first).
C3_Timeout ==
    /\ [][\A id \in DOMAIN calls :
            requestTimeoutFires(id) =>
               /\ calls[id].waited >= requestTimeout
               /\ id \in DOMAIN calls'
               /\ calls'[id].log = Append(calls[id].log, "Timeout")
               /\ ~calls'[id].timer
               /\ id \notin transports'[calls[id].tr].pendingRequests]_vars
    /\ \A id \in 1..MaxRequests : Armed(id) ~> ~Armed(id)

\* A request that failed with Timeout on a transport that is still connected.
C3_Witness ==
    \E id \in DOMAIN calls :
        /\ calls[id].log = <<"Timeout">>
        /\ transports[calls[id].tr].connected
        /\ id \notin transports[calls[id].tr].pendingRequests

\* C4: sendRequest on a transport that is not connected fails at once with
\* TransportClosed, registering no entry, arming no timer and sending nothing;
\* so callTool / readResource / getPrompt on a registered server whose
\* transport is disconnected throws in the same turn and leaves every
\* transport as it was.
C4_NotConnectedFailsAtOnce ==
    [][\A kind \in CallKinds, s \in Range(ServerNames) :
         (/\ MapHas(servers, s)
          /\ ~transports[MapGet(servers, s)].connected
          /\ invoke(kind, s))
         => LET id == requestIdCounter + 1
            IN  /\ id \in DOMAIN calls'
                /\ calls'[id].log = <<"TransportClosed">>
                /\ ~calls'[id].registered
                /\ ~calls'[id].timer
                /\ calls'[id].send = "none"
                /\ transports' = transports
                /\ \A i \in DOMAIN ops' : id \notin Range(ops'[i].reqs)
                /\ \E i \in DOMAIN returned' :
                     /\ returned'[i].kind = kind
                     /\ returned'[i].arg = s
                     /\ returned'[i].reqs = <<id>>
                     /\ returned'[i].state = "failed"
                     /\ returned'[i].error = "TransportClosed"]_vars

\* A call on a registered, disconnected server that has just failed without
\* registering anything.
C4_Witness ==
    \E i \in DOMAIN returned :
        /\ returned[i].kind \in CallKinds
        /\ returned[i].error = "TransportClosed"
        /\ MapHas(servers, returned[i].arg)
        /\ \E id \in DOMAIN calls :
             /\ returned[i].reqs = <<id>>
             /\ ~calls[id].registered
             /\ calls[id].send = "none"

\* The items one server's part of a list call contributes, untagged: those of
\* its response when it resolved with the list the method expects, else none.
Native(kind, part) ==
    IF /\ part.outcome = "resolved"
       /\ part.response.result # None
       /\ part.response.result.key = ListKey(kind)
    THEN part.response.result.items
    ELSE <<>>

WithServer(item, name) == [name |-> item.name, serverName |-> name]

Untag(item) == [f \in DOMAIN item \ {"serverName"} |-> item[f]]

\* C5: listTools / listResources / listPrompts never throw: whatever made a
\* server's request fail (Timeout, TransportClosed, SendError, RpcError, a
\* result without the expected list), the call returns, that server
\* contributes no item, and every other server contributes exactly its own
\* items.
C5_ListNeverFails ==
    \A i \in DOMAIN returned :
        returned[i].kind \in ListKinds =>
            LET op == returned[i]
            IN  /\ op.state = "returned"
                /\ op.error = ""
                /\ \A j \in DOMAIN op.result :
                     \E k \in DOMAIN op.entries :
                        op.result[j].serverName = op.entries[k].name
                /\ \A k \in DOMAIN op.entries :
                     LET name == op.entries[k].name
                         items == Native(op.kind, op.parts[k])
                     IN  SelectSeq(op.result, LAMBDA x : x.serverName = name)
                            = [j \in DOMAIN items |-> WithServer(items[j], name)]

\* A list call over two servers that has just returned the items of the one
\* server that answered, the other's request having failed.
C5_Witness ==
    \E i \in DOMAIN returned :
        /\ returned[i].kind \in ListKinds
        /\ Len(returned[i].entries) = 2
        /\ \E k \in {1, 2} :
             /\ returned[i].parts[k].outcome
                   \in {"Timeout", "TransportClosed", "SendError", "RpcError"}
             /\ Native(returned[i].kind, returned[i].parts[3 - k]) # <<>>
        /\ returned[i].result # <<>>

\* The untagged items, and the names of their servers, of the first k servers
\* of a list call, in the order of the registry entries the call iterated.
RECURSIVE NativeInOrder(_, _)
NativeInOrder(op, k) ==
    IF k = 0 THEN <<>>
    ELSE NativeInOrder(op, k - 1) \o Native(op.kind, op.parts[k])

RECURSIVE NamesInOrder(_, _)
NamesInOrder(op, k) ==
    IF k = 0 THEN <<>>
    ELSE NamesInOrder(op, k - 1)
            \o [j \in DOMAIN Native(op.kind, op.parts[k]) |-> op.entries[k].name]

\* C6: the result of a list call is the concatenation, in the iteration order
\* of the registry, of each answering server's items in the server's own
\* order, in whatever order the responses arrived; each item carries the name
\* of its server and is otherwise the item the server sent.
C6_ListOrder ==
    \A i \in DOMAIN returned :
        (returned[i].kind \in ListKinds /\ returned[i].state = "returned") =>
            LET op == returned[i]
                n == Len(op.entries)
            IN  /\ [j \in DOMAIN op.result |-> Untag(op.result[j])]
                      = NativeInOrder(op, n)
                /\ [j \in DOMAIN op.result |-> op.result[j].serverName]
                      = NamesInOrder(op, n)

\* A list call that returned the items of two servers, the registry holding
\* them in the order their connections completed (the second configured
\* server first).
C6_Witness ==
    \E i \in DOMAIN returned :
        /\ returned[i].kind \in ListKinds
        /\ Len(returned[i].entries) = 2
        /\ returned[i].entries[1].name = ServerNames[2]
        /\ Len(Native(returned[i].kind, returned[i].parts[1])) = 2
        /\ Len(Native(returned[i].kind, returned[i].parts[2])) = 1
        /\ Len(returned[i].result) = 3

\* listTools over two servers awaits requests a and a + 1; the k-th server
\* has answered with its tools, the other one's request is in its table.
C7_OneAnswered(a, k) ==
    \E i \in DOMAIN ops :
        /\ ops[i].kind = "listTools"
        /\ ops[i].reqs = <<a, a + 1>>
        /\ Outcome(calls[a + k - 1]) = "resolved"
        /\ calls[a + k - 1].response.result.key = "tools"
        /\ Outcome(calls[a + 2 - k]) = "pending"
        /\ (a + 2 - k) \in transports[calls[a + 2 - k].tr].pendingRequests

\* That call returns; if the other server never answered, it returns exactly
\* the k-th server's tools, tagged with its name.
C7_ReturnsTheAnswer(a, k) ==
    \E i \in DOMAIN returned :
        /\ returned[i].kind = "listTools"
        /\ returned[i].reqs = <<a, a + 1>>
        /\ returned[i].state = "returned"
        /\ returned[i].parts[3 - k].outcome \notin {"resolved", "RpcError"} =>
             LET items == Native("listTools", returned[i].parts[k])
             IN  returned[i].result
                    = [j \in DOMAIN items |->
                         WithServer(items[j], returned[i].entries[k].name)]

\* The other server did answer, with a frame whose error member is null: its
\* request left the table unsettled.
C7_OtherAnswered(a, k) ==
    /\ (a + 2 - k) \in DOMAIN calls
    /\ Outcome(calls[a + 2 - k]) = "pending"
    /\ (a + 2 - k) \notin transports[calls[a + 2 - k].tr].pendingRequests

\* C7: with two registered servers of which one answers the list request and
\* the other never does, listTools eventually returns exactly the answering
\* server's tools tagged with its name, without throwing; and a list call
\* never returns while one of its requests is unsettled.
C7_ListWaitsForTimeout ==
    /\ \A a \in 1..(MaxRequests - 1), k \in {1, 2} :
         C7_OneAnswered(a, k)
            ~> (C7_ReturnsTheAnswer(a, k) \/ C7_OtherAnswered(a, k))
    /\ [](\A i \in DOMAIN returned :
            returned[i].kind \in ListKinds =>
               \A k \in DOMAIN returned[i].parts :
                  returned[i].parts[k].outcome # "pending")

\* listTools has just returned the tools of the server that answered, after
\* the other server's request timed out.
C7_Witness ==
    \E i \in DOMAIN returned, k \in {1, 2} :
        /\ returned[i].kind = "listTools"
        /\ Len(returned[i].entries) = 2
        /\ returned[i].parts[3 - k].outcome = "Timeout"
        /\ returned[i].parts[k].outcome = "resolved"
        /\ returned[i].parts[k].response.result.key = "tools"
        /\ Len(returned[i].result) = Len(returned[i].parts[k].response.result.items)

\* What C8 says of one invocation of a fan-out method.
C8_Started(op) ==
    /\ op.kind \in ListKinds =>
         /\ Len(op.reqs) = Len(op.entries)
         /\ Awaiting(op) =>
              /\ \A i \in DOMAIN op.reqs :
                   /\ op.reqs[i] \in DOMAIN calls
                   /\ calls[op.reqs[i]].tr = op.entries[i].tr
              /\ \A i, j \in DOMAIN op.reqs :
                   (calls[op.reqs[i]].timer /\ calls[op.reqs[j]].timer)
                      => calls[op.reqs[i]].waited = calls[op.reqs[j]].waited
    /\ (op.kind = "connect" /\ op.state # "loading") =>
         \A i \in DOMAIN op.entries :
            op.entries[i].tr # 0 => transports[op.entries[i].tr].conn # "none"
    /\ op.kind = "disconnect" =>
         /\ ~Awaiting(op)
         /\ \A i \in DOMAIN op.entries :
              /\ ~transports[op.entries[i].tr].connected
              /\ transports[op.entries[i].tr].pendingRequests = {}

\* C8: every fan-out starts the operation of every server before it waits
\* for any of them: a list call holds one request per registry entry, each on
\* that entry's transport, from the turn in which it was called; connect has
\* called connect() on every transport it created; disconnect has
\* disconnected every registered transport when it returns.  Each request's
\* timeout runs from its own send: the timers armed by one list call have
\* waited equally long whatever happened to the other requests, and no armed
\* timer is overdue for more than one clock step.
C8_FanOutIsConcurrent ==
    /\ \A i \in DOMAIN ops : C8_Started(ops[i])
    /\ \A i \in DOMAIN returned : C8_Started(returned[i])
    /\ \A id \in DOMAIN calls :
         calls[id].timer => calls[id].waited < requestTimeout + TickMs

\* A list call over two servers is waiting: the first server is silent, its
\* timer running; the second server's request is already resolved.
C8_Witness ==
    \E i \in DOMAIN ops :
        /\ ops[i].kind \in ListKinds
        /\ Len(ops[i].reqs) = 2
        /\ calls[ops[i].reqs[1]].timer
        /\ calls[ops[i].reqs[1]].waited = 0
        /\ Outcome(calls[ops[i].reqs[1]]) = "pending"
        /\ Outcome(calls[ops[i].reqs[2]]) = "resolved"

\* C9: callTool / readResource / getPrompt with a name the registry does not
\* hold throw ServerNotFound in the same turn: no request id is generated, no
\* request is created or registered, nothing is sent, and the registry and
\* every transport are as before.
C9_UnknownServer ==
    [][\A i \in DOMAIN returned' :
         LET op == returned'[i]
         IN  (/\ op.kind \in CallKinds
              /\ op.arg \in ServerArgs
              /\ ~MapHas(servers, op.arg)
              /\ invoke(op.kind, op.arg))
             => /\ op.state = "failed"
                /\ op.error = "ServerNotFound"
                /\ op.reqs = <<>>
                /\ requestIdCounter' = requestIdCounter
                /\ servers' = servers
                /\ transports' = transports
                /\ DOMAIN calls' \subseteq DOMAIN calls
                /\ \A id \in DOMAIN calls' : calls'[id] = calls[id]
                /\ ops' = ops]_vars

\* A call that named an unknown server has just thrown, while the registry
\* holds servers and a request to one of them is pending.
C9_Witness ==
    /\ \E i \in DOMAIN returned :
         /\ returned[i].kind \in CallKinds
         /\ returned[i].error = "ServerNotFound"
    /\ servers # <<>>
    /\ \E id \in DOMAIN calls : id \in transports[calls[id].tr].pendingRequests

\* A call that has returned or thrown: its value is the result member of the
\* response that carries its request's id; an error object makes it throw.
C10_Outcome(op) ==
    /\ Len(op.reqs) = 1 => Len(op.parts) = 1
    /\ op.state = "returned" =>
         /\ Len(op.reqs) = 1
         /\ op.parts[1].outcome = "resolved"
         /\ op.parts[1].response.id = op.reqs[1]
         /\ op.parts[1].response.error = "undefined"
         /\ op.result = op.parts[1].response.result
    /\ (Len(op.reqs) = 1 /\ op.parts[1].outcome = "RpcError") =>
         /\ op.state = "failed"
         /\ op.result = None

\* C10: callTool / readResource / getPrompt on a registered server create
\* exactly one request, of the method's name, and send it on that server's
\* transport, touching no other transport; the call returns the result of the
\* response with that request's id, and throws when the server answers with
\* an error object.
C10_OneRequest ==
    [][/\ \A kind \in CallKinds, s \in Range(ServerNames) :
            (MapHas(servers, s) /\ invoke(kind, s))
            => LET id == requestIdCounter + 1
               IN  /\ requestIdCounter' = id
                   /\ DOMAIN calls' \ DOMAIN calls = {id}
                   /\ calls'[id].method = Method(kind)
                   /\ \E i \in DOMAIN servers :
                        /\ servers[i].name = s
                        /\ calls'[id].tr = servers[i].tr
                   /\ \A t \in DOMAIN transports :
                        t # calls'[id].tr => transports'[t] = transports[t]
       /\ \A i \in DOMAIN returned' :
            returned'[i].kind \in CallKinds => C10_Outcome(returned'[i])]_vars

\* A call on the second registered server has just returned the result of
\* the response to its request.
C10_Witness ==
    \E i \in DOMAIN returned :
        /\ returned[i].kind \in CallKinds
        /\ returned[i].state = "returned"
        /\ Len(servers) = 2
        /\ returned[i].arg = servers[2].name
        /\ returned[i].entries[1].tr = servers[2].tr
        /\ returned[i].result = returned[i].parts[1].response.result
        /\ returned[i].result # None

\* ---- C11

\* The registry maps transport t's server name to t.
Registered(sv, t) ==
    \E i \in DOMAIN sv : sv[i].name = transports[t].server /\ sv[i].tr = t

\* A handler of transport t's own connection that runs cleanup.
OwnFailure(t) ==
    \/ \E fatal \in BOOLEAN : SseError(t, fatal)
    \/ HttpEnd(t)
    \/ \E exits \in BOOLEAN : StdioError(t, exits)
    \/ StdioExit(t)

\* C11: when McpClient.connect() fails because a server could not be
\* connected or its transport could not be created, the other servers are not
\* affected: a transport whose connect() succeeds is registered at that
\* moment (even after connect() has failed), the step in which connect() fails
\* leaves every connected transport connected and every registry entry in
\* place, and a connected transport of the client only stops being connected
\* in a handler of its own connection or in McpClient.disconnect().
C11_PeersSurviveFailure ==
    [][ /\ \A t \in DOMAIN transports :
             ( /\ transports[t].op # 0
               /\ transports[t].conn = "pending"
               /\ transports'[t].conn = "resolved" )
             => transports'[t].connected /\ Registered(servers', t)
        /\ \A i \in DOMAIN returned' :
             (returned'[i].kind = "connect" /\ returned'[i].state = "failed")
             => \A t \in DOMAIN transports :
                  /\ transports[t].connected => transports'[t].connected
                  /\ Registered(servers, t) => Registered(servers', t)
        /\ \A t \in DOMAIN transports :
             (transports[t].connected /\ ~transports'[t].connected)
             => \/ \E failing \in SUBSET DOMAIN transports :
                     disconnectWith(failing)
                \/ OwnFailure(t)
      ]_vars

\* connect() has just failed on one server while another server's transport
\* is connected and registered.
C11_Witness ==
    \E i \in DOMAIN returned :
      /\ returned[i].kind = "connect"
      /\ returned[i].state = "failed"
      /\ returned[i].error \in {"ConnectionError", "InvalidServerConfig"}
      /\ \E t \in DOMAIN transports :
           transports[t].connected /\ Registered(servers, t)

\* ---- C12

\* C12: when McpClient.connect() returns successfully, the registry holds
\* exactly one entry per configured server name, each entry's transport is one
\* whose connect() succeeded, and connect() was invoked on one transport per
\* configured server.
C12_ConnectRegistersAll ==
    \A i \in DOMAIN returned :
      (returned[i].kind = "connect" /\ returned[i].state = "returned")
      => LET configured == returned[i].entries
         IN  /\ Len(servers) = Len(configured)
             /\ \A k \in DOMAIN configured :
                  /\ Cardinality({j \in DOMAIN servers :
                                    servers[j].name = configured[k].name}) = 1
                  /\ configured[k].tr # 0
                  /\ transports[configured[k].tr].conn = "resolved"
             /\ \A j \in DOMAIN servers :
                  /\ transports[servers[j].tr].conn = "resolved"
                  /\ \E k \in DOMAIN configured :
                       servers[j].name = configured[k].name
             /\ \A k, l \in DOMAIN configured :
                  configured[k].tr = configured[l].tr => k = l

\* ---- C13

\* A connect() is awaiting loadConfig().
Loading(os) == \E o \in DOMAIN os : os[o].state = "loading"

\* connect() has failed with one of errs, having created no transport.
FailedEarly(op, errs) ==
    /\ op.kind = "connect"
    /\ op.state = "failed"
    /\ op.error \in errs
    /\ op.entries = <<>>

\* C13: when loadConfig() fails, or resolves with a configuration that has no
\* servers, McpClient.connect() fails (with NoServersConfigured for the empty
\* set) in that step, and the step creates and connects no transport and
\* leaves the registry as it was.
C13_NoConfigNoTransport ==
    [][ /\ \A o \in DOMAIN ops :
             loadConfigFails(o)
             => \E i \in DOMAIN returned' :
                  FailedEarly(returned'[i], {"ConfigError"})
        /\ (Loading(ops) /\ ~Loading(ops')
            /\ config' = [mcpServers |-> <<>>])
           => \E i \in DOMAIN returned' :
                FailedEarly(returned'[i], {"ConfigError", "NoServersConfigured"})
        /\ (Loading(ops) /\ ~Loading(ops')
            /\ config' = [mcpServers |-> <<>>] /\ config # config')
           => \E i \in DOMAIN returned' :
                FailedEarly(returned'[i], {"NoServersConfigured"})
        /\ \A i \in DOMAIN returned' :
             FailedEarly(returned'[i], {"ConfigError", "NoServersConfigured"})
             => transports' = transports /\ servers' = servers
      ]_vars

\* connect() has just failed for an empty configuration, on a client whose
\* registry holds a connected transport from an earlier connect().
C13_Witness ==
    /\ \E i \in DOMAIN returned :
         FailedEarly(returned[i], {"NoServersConfigured"})
    /\ config = [mcpServers |-> <<>>]
    /\ \E t \in DOMAIN transports :
         transports[t].connected /\ Registered(servers, t)

\* ---- C14

\* C14: McpClient.disconnect() calls disconnect() exactly once on every
\* transport that is registered when it starts, returns successfully whether
\* or not one of those calls throws, has every such transport either
\* disconnected (handle dropped, table empty) or, where the call threw, as it
\* was, and leaves the registry empty.
C14_DisconnectAll ==
    [][ \A i \in DOMAIN returned' :
          returned'[i].kind = "disconnect"
          => /\ returned'[i].state = "returned"
             /\ returned'[i].entries = servers
             /\ Len(returned'[i].parts) = Len(servers)
             /\ \A j \in DOMAIN servers :
                  /\ Cardinality({k \in DOMAIN returned'[i].parts :
                                    returned'[i].parts[k] = servers[j].tr}) = 1
                  /\ \/ /\ ~transports'[servers[j].tr].connected
                        /\ ~transports'[servers[j].tr].handle
                        /\ transports'[servers[j].tr].pendingRequests = {}
                     \/ transports'[servers[j].tr] = transports[servers[j].tr]
             /\ servers' = <<>>
      ]_vars

\* disconnect() has just returned on a client that had two registered
\* transports, one of whose close call threw: that one is still connected,
\* the other is not, and the registry is empty.
C14_Witness ==
    \E i \in DOMAIN returned :
      /\ returned[i].kind = "disconnect"
      /\ returned[i].state = "returned"
      /\ Len(returned[i].entries) = 2
      /\ transports[returned[i].entries[1].tr].connected
      /\ ~transports[returned[i].entries[2].tr].connected
      /\ ~transports[returned[i].entries[2].tr].handle
      /\ servers = <<>>

\* ---- C15

\* BaseTransport.isConnected().
isConnected(t) == transports[t].connected

\* McpClient.getConnectedServers(): Array.from(this.servers.keys()).
getConnectedServers == [i \in DOMAIN servers |-> servers[i].name]

\* McpClient.isServerConnected(serverName).
isServerConnected(serverName) ==
    IF MapHas(servers, serverName)
    THEN isConnected(MapGet(servers, serverName))
    ELSE FALSE

\* C15: at any moment every name that getConnectedServers() returns satisfies
\* isServerConnected(name).
C15_ListedAreConnected ==
    \A i \in DOMAIN getConnectedServers :
      isServerConnected(getConnectedServers[i])

\* ---- C16

\* The invocations of connect() that have mapped over the configuration.
Attempted ==
    {ops[i] : i \in {j \in DOMAIN ops : ops[j].kind = "connect"
                                        /\ ops[j].entries # <<>>}}
    \cup {returned[i] : i \in {j \in DOMAIN returned :
                                  returned[j].kind = "connect"
                                  /\ returned[j].entries # <<>>}}

\* Attempt e made a transport of this kind.
Made(e, kind) == e.tr # 0 /\ transports[e.tr].kind = kind

\* Attempt e made no transport and failed with this error.
Threw(e, error) == e.tr = 0 /\ e.error = error

\* C16: createTransport picks the kind by precedence. An explicit type that
\* is one of the three kinds is used (the transport made has that kind; if
\* none is made, it is that kind's constructor that refused); without a
\* type, a command makes a stdio transport; without type and command, a url
\* makes an sse transport; with none of the three it throws
\* InvalidServerConfig; an explicit type that is none of the three kinds
\* throws UnsupportedTransportKind.
C16_KindPrecedence ==
    \A op \in Attempted : \A k \in DOMAIN op.entries :
      LET c == op.entries[k].config
          e == op.entries[k]
      IN  /\ c.type \in Kinds
             => Made(e, c.type) \/ Threw(e, "ConstructorError")
          /\ (c.type = "" /\ c.command) => Made(e, "stdio")
          /\ (c.type = "" /\ ~c.command /\ c.url) => Made(e, "sse")
          /\ (c.type = "" /\ ~c.command /\ ~c.url)
             => Threw(e, "InvalidServerConfig")
          /\ c.type \notin Kinds \cup {""}
             => Threw(e, "UnsupportedTransportKind")

\* A configuration with url and command and no type has made a stdio
\* transport, next to one whose type is none of the kinds and made none.
C16_Witness ==
    \E op \in Attempted :
      /\ Len(op.entries) = 2
      /\ op.entries[1].config = Cfg("", TRUE, TRUE)
      /\ Made(op.entries[1], "stdio")
      /\ op.entries[2].config.type = "websocket"
      /\ Threw(op.entries[2], "UnsupportedTransportKind")

\* ---- C17

\* The invariant of a server configuration: exactly one of url and command
\* is populated, and an explicit type agrees with it.
ValidCfg(c) ==
    /\ c.url # c.command
    /\ \/ c.type = ""
       \/ c.type \in {"sse", "httpStream"} /\ c.url
       \/ c.type = "stdio" /\ c.command

\* C17: a transport is made only from a configuration that satisfies the
\* invariant; a configuration that violates it (url and command both
\* populated, or a type whose required field is missing) yields no transport.
C17_OnlyValidConfigs ==
    \A op \in Attempted : \A k \in DOMAIN op.entries :
      op.entries[k].tr # 0 <=> ValidCfg(op.entries[k].config)

\* ---- C18

\* The complete lines of text str, read one character at a time: cur is the
\* line being read, acc the lines completed so far.
RECURSIVE CompleteLines(_, _, _)
CompleteLines(str, cur, acc) ==
    IF str = <<>> THEN [lines |-> acc, rest |-> cur]
    ELSE IF Head(str) = "\n" THEN CompleteLines(Tail(str), <<>>, Append(acc, cur))
    ELSE CompleteLines(Tail(str), Append(cur, Head(str)), acc)

\* A line with a character that is not white space.
NonBlank(line) == \E i \in DOMAIN line : line[i] \notin WhiteSpace

\* C18: however the stream has been cut into chunks, the texts handed to
\* handleResponse are the complete non-blank lines of what has arrived, one
\* call per line, in stream order, and the buffer holds the incomplete last
\* line.
C18_FramingIgnoresChunking ==
    LET arrived == CompleteLines(SubSeq(wire.stream, 1, wire.pos), <<>>, <<>>)
        nonBlank == SelectSeq(arrived.lines, NonBlank)
    IN  /\ Len(wire.handed) = Len(nonBlank)
        /\ \A k \in DOMAIN nonBlank : wire.handed[k] = trim(nonBlank[k])
        /\ wire.buffer = arrived.rest

\* The chunks so far end inside the second line: the first line was handed
\* over and the buffer keeps the part of the second that has arrived.
C18_Witness ==
    /\ wire.stream = <<"a", "\n", "a", "b", "\n">>
    /\ wire.pos = 3
    /\ wire.handed = << <<"a">> >>
    /\ wire.buffer = <<"a">>

\* ---- C19

\* Transport t's connect() returns successfully in this step.
ConnectSucceeds(t) ==
    transports[t].conn = "pending" /\ transports'[t].conn = "resolved"

\* C19: when a transport's connect() returns successfully, the transport is
\* connected and can carry a request at that moment: its channel is live (the
\* event stream is open, the response stream is open, the child process has
\* been spawned and is running) and an sse transport has its message
\* endpoint.
C19_ConnectedWhenConnectReturns ==
    [][ \A t \in DOMAIN transports :
          ConnectSucceeds(t)
          => /\ transports'[t].connected
             /\ transports'[t].handle
             /\ transports'[t].chan = "live"
             /\ transports[t].kind = "sse" => transports'[t].messageEndpoint
      ]_vars

\* ---- C20

\* C20: once a transport's connect() has failed, and as long as connect() has
\* not been called on it again, the transport is disconnected: isConnected()
\* is false.
C20_DisconnectedAfterFailedConnect ==
    \A t \in DOMAIN transports :
      transports[t].conn = "rejected" => ~isConnected(t)

\* ---- C21

\* C21: connect() called on a transport that is connected is a no-op: the
\* step leaves the transport (its connection state, its channel and handle,
\* its table) and every request as they were, and the call has returned
\* successfully before (the connect promise stays as it was).
C21_ConnectWhenConnected ==
    [][ \A t \in DOMAIN transports :
          (transports[t].connected /\ userConnect(t))
          => /\ transports' = transports
             /\ \A id \in DOMAIN calls' : calls'[id] = calls[id]
             /\ \A id \in transports[t].pendingRequests : id \in DOMAIN calls'
      ]_vars

\* A connected transport with a request in its table, on which user code can
\* call connect() again.
C21_Witness ==
    \E t \in DOMAIN transports :
      /\ transports[t].connected
      /\ transports[t].op = 0
      /\ transports[t].chan = "live"
      /\ transports[t].pendingRequests # {}

\* ---- C22

\* World w has transport t disconnected with an empty table, and differs
\* from world v, in the requests, only by one TransportClosed rejection of
\* each request that was in t's table in v.
ClosedOnce(v, w, t) ==
    /\ ~w.tr[t].connected
    /\ w.tr[t].pendingRequests = {}
    /\ \A id \in DOMAIN v.cs :
         w.cs[id].log = IF id \in v.tr[t].pendingRequests
                        THEN Append(v.cs[id].log, "TransportClosed")
                        ELSE v.cs[id].log

\* C22: in every state a transport can be in, disconnect() and cleanup()
\* leave it disconnected with an empty table, having rejected each request of
\* the table once, and calling either of them again changes nothing more.
C22_DisconnectIdempotent ==
    \A t \in DOMAIN transports :
      LET d == transportDisconnect(World, t)
          c == cleanup(World, t)
      IN  /\ ClosedOnce(World, d, t)
          /\ ~d.tr[t].handle
          /\ transportDisconnect(d, t) = d
          /\ cleanup(d, t) = d
          /\ ClosedOnce(World, c, t)
          /\ cleanup(c, t) = c
          /\ transportDisconnect(c, t) = transportDisconnect(World, t)

\* A transport that was connected has been disconnected while a request was
\* in its table: the request was rejected once with TransportClosed.
C22_Witness ==
    \E t \in DOMAIN transports :
      /\ transports[t].conn = "resolved"
      /\ ~transports[t].connected
      /\ ~transports[t].handle
      /\ \E id \in DOMAIN calls :
           calls[id].tr = t /\ calls[id].log = <<"TransportClosed">>
                            /\ calls[id].registered

\* ---- C23

\* Transport t was connected (its connect() returned successfully) and is
\* disconnected now.
WasConnected(t) == transports[t].conn = "resolved" /\ ~isConnected(t)

\* C23: the disconnected state after a connection is terminal: a transport
\* that was connected and has become disconnected neither starts connecting
\* nor becomes connected again.
C23_DisconnectedIsTerminal ==
    [][ \A t \in DOMAIN transports :
          WasConnected(t)
          => /\ ~transports'[t].connected
             /\ transports'[t].conn = "resolved"
      ]_vars

\* ---- C24

\* The physical connections that transport t opened and that are open.
Owned(t) == transports[t].leaked + (IF Open(transports[t]) THEN 1 ELSE 0)

\* C24: at every moment a transport owns at most one physical connection.
C24_AtMostOneConnection == \A t \in DOMAIN transports : Owned(t) <= 1

\* ---- C25

\* C25: once disconnect() has returned on a stdio transport (and until
\* connect() is called again, the transport holds no process), every child
\* process it spawned has exited or has been sent a termination signal:
\* none is still running.
C25_NoProcessLeftRunning ==
    \A t \in DOMAIN transports :
      (transports[t].kind = "stdio" /\ ~transports[t].handle)
      => Owned(t) = 0

\* ---- C26

\* Transport t's connect() resolves in this step, inside McpClient.connect.
RegisteredNow(t) ==
    /\ transports'[t].op # 0
    /\ transports'[t].conn = "resolved"
    /\ t \in DOMAIN transports => transports[t].conn = "pending"

\* C26: a step changes the registry only when McpClient.disconnect() runs in
\* it (the registry is then empty) or when a transport's connect() resolves
\* inside McpClient.connect() (the transport is then set under its server's
\* name); the list and call methods, timeouts, RPC errors and failures of
\* connected transports leave it as it is.
C26_RegistryFrame ==
    [][ servers' # servers
        => \/ /\ servers' = <<>>
              /\ \E i \in DOMAIN returned' : returned'[i].kind = "disconnect"
           \/ \E t \in DOMAIN transports' :
                /\ RegisteredNow(t)
                /\ servers' = MapSet(servers, transports'[t].server, t)
      ]_vars

\* A registered transport has failed after connecting and a request on a
\* registered transport has failed (timed out, was answered with an RPC
\* error or was cut off): both entries are still in the registry.
C26_Witness ==
    /\ Len(servers) = 2
    /\ \E j \in DOMAIN servers :
         /\ transports[servers[j].tr].conn = "resolved"
         /\ ~transports[servers[j].tr].connected
    /\ \E id \in DOMAIN calls :
         /\ Outcome(calls[id]) \in {"Timeout", "RpcError", "TransportClosed"}
         /\ calls[id].registered

\* The ids of the requests an invocation built, in creation order.
StrictlyIncreasing(reqs) ==
    \A k \in DOMAIN reqs :
        /\ reqs[k] >= 1
        /\ k > 1 => reqs[k] > reqs[k - 1]

\* The requests created in this step.
Created == DOMAIN calls' \ DOMAIN calls

\* C27: every id generateRequestId hands out is at least 1 and greater than
\* every id handed out before it (the counter never decreases and advances by
\* one per request created); the ids one list call builds are strictly
\* increasing in creation order; and no id is in the table of two transports
\* or in the requests of two invocations at once.
C27_RequestIdsUnique ==
    [][ /\ requestIdCounter' >= requestIdCounter
        /\ requestIdCounter' - requestIdCounter = Cardinality(Created)
        /\ \A id \in Created : id >= 1 /\ id > requestIdCounter
                                 /\ id <= requestIdCounter'
        /\ \A i \in DOMAIN ops' : StrictlyIncreasing(ops'[i].reqs)
        /\ \A i \in DOMAIN returned' : StrictlyIncreasing(returned'[i].reqs)
        /\ \A i, j \in DOMAIN ops' :
              i # j => Range(ops'[i].reqs) \cap Range(ops'[j].reqs) = {}
        /\ \A t, u \in DOMAIN transports' :
              t # u => transports'[t].pendingRequests
                         \cap transports'[u].pendingRequests = {}
      ]_vars

\* Two call invocations are awaiting their requests at once, on different
\* transports, each with its own id in its transport's table.
C27_Witness ==
    \E i, j \in DOMAIN ops :
        /\ i # j
        /\ ops[i].reqs # <<>> /\ ops[j].reqs # <<>>
        /\ ops[i].reqs[1] # ops[j].reqs[1]
        /\ calls[ops[i].reqs[1]].tr # calls[ops[j].reqs[1]].tr
        /\ ops[i].reqs[1] \in transports[calls[ops[i].reqs[1]].tr].pendingRequests
        /\ ops[j].reqs[1] \in transports[calls[ops[j].reqs[1]].tr].pendingRequests

\* The frame cannot be correlated with a request of transport t: it is not
\* JSON, not an object, has no "2.0" tag, has no id or a null one, or its id
\* is not in t's table.
Uncorrelatable(t, frame) ==
    \/ frame.shape # "object"
    \/ frame.jsonrpc # "2.0"
    \/ frame.idType \in {"undefined", "null"}
    \/ frame.id \notin transports[t].pendingRequests

\* C28: handleResponse on a frame that cannot be correlated changes nothing:
\* the transport's state and table, every timer and every promise are as
\* before, and a frame handled after it is handled as if it had not come.
C28_UncorrelatableDiscarded ==
    \A t \in DOMAIN transports :
      \A frame \in Frames :
        Uncorrelatable(t, frame)
          => /\ handleResponse(World, t, frame) = World
             /\ \A next \in Frames :
                   handleResponse(handleResponse(World, t, frame), t, next)
                     = handleResponse(World, t, next)

\* A connected transport has a request in its table whose promise is pending,
\* and the server may send a frame bearing that id without the "2.0" tag, and
\* one bearing an id of no request.
C28_Witness ==
    \E t \in DOMAIN transports :
      /\ transports[t].connected
      /\ \E id \in transports[t].pendingRequests :
           /\ Outcome(calls[id]) = "pending"
           /\ \E frame \in Frames :
                frame.idType = "number" /\ frame.id = id
                  /\ Uncorrelatable(t, frame)
      /\ \E frame \in Frames :
           validateResponse(frame) /\ Truthy(frame) /\ Uncorrelatable(t, frame)

\* What handleResponse has done to request frame.id of transport t in w.
Settled(w, t, frame) ==
    /\ frame.id \notin w.tr[t].pendingRequests
    /\ ~w.cs[frame.id].timer
    /\ w.cs[frame.id].log
         = <<IF frame.error = "object" THEN "RpcError" ELSE "resolved">>
    /\ frame.error # "object" => w.cs[frame.id].response = frame

\* C29: handleResponse on a frame whose id is in the transport's table
\* removes the entry, clears its timer and settles its promise at once:
\* rejected with the RPC error if the frame carries an error object, resolved
\* with the frame otherwise; no entry is removed with its promise left
\* pending.
C29_CorrelatedSettles ==
    \A t \in DOMAIN transports :
      \A frame \in Frames :
        ~Uncorrelatable(t, frame)
          => Settled(handleResponse(World, t, frame), t, frame)

\* The sendMessage of request id fails in this step: its promise rejects, or
\* it throws before any I/O in the step that sends the request.
SendFails(id) ==
    /\ id \in DOMAIN calls'
    /\ calls'[id].send = "failed"
    /\ id \in DOMAIN calls => calls[id].send = "inflight"

\* C30: in the step in which the sendMessage of a request fails, the
\* request's entry is removed and its timer cleared, the request is rejected
\* with SendError if it was still pending, every other request and every other
\* table entry is as before and the transport's connected flag is unchanged;
\* and nothing settles or times a request again after its send has failed.
C30_SendFailure ==
    [][ /\ \A id \in DOMAIN calls' :
              SendFails(id)
                => LET t == calls'[id].tr
                   IN  /\ id \notin transports'[t].pendingRequests
                       /\ ~calls'[id].timer
                       /\ id \notin DOMAIN calls \/ Outcome(calls[id]) = "pending"
                            => Outcome(calls'[id]) = "SendError"
                       /\ transports'[t].connected = transports[t].connected
                       /\ \A u \in DOMAIN transports :
                            transports[u].pendingRequests \ {id}
                              \subseteq transports'[u].pendingRequests
                       /\ \A other \in (DOMAIN calls \cap DOMAIN calls') \ {id} :
                            calls'[other] = calls[other]
        /\ \A id \in DOMAIN calls \cap DOMAIN calls' :
              calls[id].send = "failed"
                => /\ calls'[id].log = calls[id].log
                   /\ ~calls'[id].timer
                   /\ id \notin transports'[calls'[id].tr].pendingRequests
      ]_vars

\* The send of one request has failed and rejected it with SendError, while
\* another request of the same transport is still in the table with its timer
\* running and the transport is connected.
C30_Witness ==
    \E id, other \in DOMAIN calls :
        /\ id # other
        /\ calls[id].tr = calls[other].tr
        /\ calls[id].send = "failed"
        /\ calls[id].log = <<"SendError">>
        /\ transports[calls[id].tr].connected
        /\ other \in transports[calls[id].tr].pendingRequests
        /\ calls[other].timer
        /\ Outcome(calls[other]) = "pending"

\* ---- C31

\* A handler of a failure of transport t's channel runs in this step: the
\* response stream ends or errors, the child process exits or errors, the
\* EventSource errors.
Failure(t) ==
    \/ HttpEnd(t)
    \/ StdioExit(t)
    \/ \E exits \in BOOLEAN : StdioError(t, exits)
    \/ \E fatal \in BOOLEAN : SseError(t, fatal)

\* C31: when the channel of a connected transport fails, the handler runs
\* cleanup and throws to no caller: the transport is disconnected with an
\* empty table, its connect promise stays resolved, every caller suspended in
\* a sendRequest on it is rejected with TransportClosed, and the requests of
\* other transports are as before.
C31_FailureRejectsInFlight ==
    [][ \A t \in DOMAIN transports :
          transports[t].connected /\ Failure(t)
            => /\ ~transports'[t].connected
               /\ transports'[t].pendingRequests = {}
               /\ transports'[t].conn = transports[t].conn
               /\ \A id \in DOMAIN calls :
                    IF calls[id].tr = t
                    THEN calls[id].registered /\ Outcome(calls[id]) = "pending"
                           => /\ id \in DOMAIN calls'
                              /\ Outcome(calls'[id]) = "TransportClosed"
                    ELSE id \in DOMAIN calls' => calls'[id] = calls[id]
      ]_vars

\* ---- C32

SseErrors(t) == \E fatal \in BOOLEAN : SseError(t, fatal)

\* C32: the promise of an SseTransport's connect() resolves in the step of the
\* 'endpoint' event and in no other, and rejects in the step of an error that
\* comes while it is pending (before the endpoint) and in no other.
C32_SseConnectOutcome ==
    [][ \A t \in DOMAIN transports :
          transports[t].kind = "sse" /\ transports[t].conn = "pending"
            => /\ SseEndpoint(t) => transports'[t].conn = "resolved"
               /\ SseErrors(t) => transports'[t].conn = "rejected"
               /\ transports'[t].conn = "resolved" => SseEndpoint(t)
               /\ transports'[t].conn = "rejected" => SseErrors(t)
      ]_vars

\* ---- C33

\* C33: a transport that is not connected has an empty table, and a
\* sendRequest made on a transport that was not connected registered nothing:
\* it failed with TransportClosed, armed no timer and sent nothing.
C33_DisconnectedTableEmpty ==
    /\ \A t \in DOMAIN transports :
         ~transports[t].connected => transports[t].pendingRequests = {}
    /\ \A id \in DOMAIN calls :
         ~calls[id].registered
           => /\ calls[id].log = <<"TransportClosed">>
              /\ ~calls[id].timer
              /\ calls[id].send = "none"
              /\ \A t \in DOMAIN transports :
                   id \notin transports[t].pendingRequests

\* A transport that was connected is disconnected: a request that was in its
\* table was rejected by cleanup, and a request sent after that was refused.
C33_Witness ==
    \E t \in DOMAIN transports :
      /\ transports[t].conn = "resolved"
      /\ ~transports[t].connected
      /\ \E id, late \in DOMAIN calls :
           /\ calls[id].tr = t /\ calls[late].tr = t
           /\ calls[id].registered /\ calls[id].log = <<"TransportClosed">>
           /\ ~calls[late].registered

\* ---- C34

\* The requests of transport t whose timeout timer is armed.
ArmedOn(t) == {id \in DOMAIN calls : calls[id].tr = t /\ calls[id].timer}

\* C34: after every step the ids in a transport's table are exactly the ids
\* of its requests with an armed timer; and the step in which the timer of a
\* request expires removes that request's entry and rejects that request with
\* Timeout, leaving every other request, entry and timer as it was.
C34_TableMatchesTimers ==
    [][ /\ \A t \in DOMAIN transports' :
              transports'[t].pendingRequests
                = {id \in DOMAIN calls' : calls'[id].tr = t /\ calls'[id].timer}
        /\ \A id \in DOMAIN calls :
              requestTimeoutFires(id)
                => /\ id \notin transports'[calls[id].tr].pendingRequests
                   /\ id \in DOMAIN calls' => calls'[id].log = Append(calls[id].log, "Timeout")
                   /\ \A t \in DOMAIN transports :
                        transports'[t].pendingRequests
                          = transports[t].pendingRequests \ {id}
                   /\ \A other \in (DOMAIN calls \cap DOMAIN calls') \ {id} :
                        calls'[other] = calls[other]
      ]_vars

\* A request has timed out and left the table while another request of the
\* same transport is still in the table with its timer armed.
C34_Witness ==
    \E t \in DOMAIN transports :
      \E id, other \in DOMAIN calls :
        /\ calls[id].tr = t /\ calls[other].tr = t
        /\ calls[id].log = <<"Timeout">>
        /\ id \notin transports[t].pendingRequests
        /\ ArmedOn(t) = {other}
        /\ transports[t].pendingRequests = {other}

\* ---- C35

\* McpClient.connect() is called in this step.
ConnectCalled ==
    /\ \E i \in DOMAIN ops' : ops'[i].state = "loading"
    /\ \A i \in DOMAIN ops : ops[i].state # "loading"

\* McpClient.disconnect() has just returned.
DisconnectReturned ==
    \E i \in DOMAIN returned : returned[i].kind = "disconnect"

\* C35: from the state in which disconnect() has returned, a step in which
\* connect() is not called leaves getConnectedServers() empty.
C35_StaysEmptyAfterDisconnect ==
    [][ DisconnectReturned /\ ~ConnectCalled
          => getConnectedServers' = <<>> ]_vars

\* ---- C36

\* No McpClient call is in progress and no transport's connect() is pending.
Completed ==
    /\ ops = <<>>
    /\ \A t \in DOMAIN transports : transports[t].conn # "pending"

\* C36: when every connect() and disconnect() call and every connection
\* attempt has completed, each connected transport that McpClient created is
\* the transport the registry holds under its server's name.
C36_ConnectedAreRegistered ==
    Completed
      => \A t \in DOMAIN transports :
           transports[t].op # 0 /\ isConnected(t)
             => /\ MapHas(servers, transports[t].server)
                /\ MapGet(servers, transports[t].server) = t

\* ---- C37

\* The caller of sendRequest(id) is suspended: the request was registered and
\* its promise is neither resolved nor rejected.
Suspended(id) ==
    /\ id \in DOMAIN calls
    /\ calls[id].registered
    /\ Outcome(calls[id]) = "pending"

\* C37: with timers firing when due, every registered request is eventually
\* settled, whatever the server sends.
C37_EveryRequestSettles ==
    \A id \in 1..MaxRequests : Suspended(id) ~> ~Suspended(id)

\* ---- C38

\* C38: while disconnect() has returned on a transport and connect() has not
\* been called on it since, isConnected() is false.
C38_StaysDisconnected ==
    \A t \in DOMAIN transports :
      transports[t].disconnectCalled => ~isConnected(t)

\* ---- C39

\* The channel a connecting transport opened eventually signals readiness or
\* reports an error: the EventSource delivers 'endpoint' or fails, the HTTP
\* request gets a response or an error, the 100 ms start timer fires.
ChannelFairness ==
    /\ WF_vars(\E t \in DOMAIN transports :
                 SseEndpoint(t) \/ \E fatal \in BOOLEAN : SseError(t, fatal))
    /\ WF_vars(\E t \in DOMAIN transports :
                 (\E ok \in BOOLEAN : HttpResponse(t, ok)) \/ HttpReqError(t))
    /\ WF_vars(\E t \in DOMAIN transports : StdioStartTimer(t))

SpecTransportChannelFair == SpecTransport /\ ChannelFairness

\* C39: with such a channel, the promise of every connect() call on the
\* transport is eventually resolved or rejected.
C39_ConnectSettles ==
    transports[1].conn = "pending" ~> transports[1].conn # "pending"

====
